---- MODULE Spec2Model ----
(***************************************************************************)
(* A model of teaching-toolshed's grading core:                            *)
(*   - compute_single_lesson_score and compute_total_score of              *)
(*     compute_lesson_scores.py (pure functions over pandas tables),       *)
(*   - the Canvas gradebook object of teachingtoolshed/gradebook/canvas.py *)
(*     (a long-lived object mutated by add_grades / set_grade).            *)
(*                                                                         *)
(* pandas values are modelled as follows.                                  *)
(*   float cell  : a record [nan, v]; NaN is [nan |-> TRUE, v |-> 0].      *)
(*   timestamp   : a record [nat, t], t in minutes; NaT has nat = TRUE.    *)
(*   Series      : a function from its index (student identifiers) to      *)
(*                 cells; binary operators align on the union of indexes.  *)
(* The late-policy factors 1.0 / 0.5 / 0.0 are kept doubled (2 / 1 / 0),   *)
(* so every quantity derived from them is an integer number of halves.     *)
(***************************************************************************)
EXTENDS Integers, Sequences, FiniteSets, TLC

VARIABLES
    \* ---- compute_single_lesson_score: arguments, files read, result ----
    lesson_metadata,      \* [quiz |-> Seq(activity), code |-> Seq(activity)]
    df,                   \* completion table: student -> [slide -> timestamp]
    due_date,             \* minutes
    results,              \* activity -> raw score table (student -> float)
    all_on_time,          \* slide -> Series of doubled time factors
    lesson_scores,        \* the returned Series (student -> quotient)
    lpc,                  \* "start" | "timed" | "done" | "raised"
    \* ---- compute_total_score: arguments and result ----
    gradebook,            \* student -> [column -> float]
    lesson_column_names,  \* Seq(column name)
    drop_lowest,
    tpc,                  \* "start" | "done" | "permuted"
    permuted_names,       \* the lesson columns in the order of a second call
    \* ---- the Canvas object ----
    original_canvas,      \* the snapshot: student -> [column -> cell]
    canvas,               \* the gradebook: student -> [column -> cell]
    index,                \* canvas.index: the student rows, in order
    columns,              \* canvas.columns, in order
    changes,              \* the ledger of changed columns
    nwrites,              \* add_grades / set_grade calls that changed the object
    last                  \* the last call and its outcome

lessonVars ==
    <<lesson_metadata, df, due_date, results, all_on_time, lesson_scores, lpc>>
totalVars ==
    <<gradebook, lesson_column_names, drop_lowest, tpc, permuted_names>>
canvasVars ==
    <<original_canvas, canvas, index, columns, changes, nwrites, last>>

----------------------------------------------------------------------------
(* Floats and aligned Series arithmetic (pandas / numpy semantics).         *)

NaN == [nan |-> TRUE, v |-> 0]
F(x) == [nan |-> FALSE, v |-> x]

FMul(x, y) == IF x.nan \/ y.nan THEN NaN ELSE F(x.v * y.v)
FAdd(x, y) == IF x.nan \/ y.nan THEN NaN ELSE F(x.v + y.v)

\* Series op Series: the result is indexed by the union of both indexes and
\* is NaN wherever either operand has no entry.
SeriesMul(s1, s2) ==
    [i \in (DOMAIN s1) \cup (DOMAIN s2) |->
        IF i \in (DOMAIN s1) \cap (DOMAIN s2) THEN FMul(s1[i], s2[i]) ELSE NaN]
SeriesAdd(s1, s2) ==
    [i \in (DOMAIN s1) \cup (DOMAIN s2) |->
        IF i \in (DOMAIN s1) \cap (DOMAIN s2) THEN FAdd(s1[i], s2[i]) ELSE NaN]

\* Series.sum() in place of Series.max(): every row's points are added up.
RECURSIVE SeriesSum(_)
SeriesSum(s) ==
    IF DOMAIN s = {} THEN F(0)
    ELSE LET i == CHOOSE j \in DOMAIN s : TRUE
             rest == SeriesSum([j \in (DOMAIN s) \ {i} |-> s[j]])
         IN  F((IF s[i].nan THEN 0 ELSE s[i].v) + rest.v)

\* s1 += s2: the sum is computed on the union of the indexes and then
\* reindexed like s1, so the index of s1 is kept.
InplaceAdd(s1, s2) == [i \in DOMAIN s1 |-> SeriesAdd(s1, s2)[i]]

\* Series.max(): the largest non-NaN value, NaN when there is none.
SeriesMax(s) ==
    LET vals == {s[i].v : i \in {j \in DOMAIN s : ~s[j].nan}}
    IN  IF vals = {} THEN NaN
        ELSE F(CHOOSE m \in vals : \A x \in vals : x <= m)

\* The operands of the division exchanged.
QuotSwapped(n, d) ==
    IF n.nan \/ d.nan \/ (n.v = 0 /\ d.v = 0)
    THEN [nan |-> TRUE, num |-> 0, den |-> 0]
    ELSE [nan |-> FALSE, num |-> d.v, den |-> n.v]

\* numerator / denominator of floats: a quotient [nan, num, den]. A zero
\* denominator does not raise in pandas: 0/0 is NaN and x/0 is +-inf, kept
\* here as a quotient with den = 0.
Quot(n, d) ==
    IF n.nan \/ d.nan \/ (n.v = 0 /\ d.v = 0)
    THEN [nan |-> TRUE, num |-> 0, den |-> 0]
    ELSE [nan |-> FALSE, num |-> n.v, den |-> d.v]

----------------------------------------------------------------------------
(* compute_single_lesson_score                                              *)

GraceMinutes == 15
LateDays == 7
MinutesPerDay == 1440

NaT == [nat |-> TRUE, t |-> 0]
At(t) == [nat |-> FALSE, t |-> t]

\* df[col] <= deadline: the comparison made inclusive.
BeforeOrAt(cell, deadline) == ~cell.nat /\ cell.t <= deadline

\* df[col] < deadline, elementwise; a comparison with NaT is False.
Before(cell, deadline) == ~cell.nat /\ cell.t < deadline

due_date_buffered(due) == due + GraceMinutes
late_date_buffered(due) == due_date_buffered(due) + LateDays * MinutesPerDay

\* A binary on-time value: nothing for a late completion.
OnTimeBinary(cell, due) ==
    IF Before(cell, due_date_buffered(due)) THEN 2 ELSE 0

\* 0.5 * before_due_date + 0.5 * before_late_cutoff, doubled.
OnTime2(cell, due) ==
    (IF Before(cell, due_date_buffered(due)) THEN 1 ELSE 0)
  + (IF Before(cell, late_date_buffered(due)) THEN 1 ELSE 0)

\* The frame all_on_time: one Series over df.index per slide column.
AllOnTime(d, slide_columns, due) ==
    [slide \in slide_columns |-> [s \in DOMAIN d |-> F(OnTime2(d[s][slide], due))]]

\* for type in ["quiz", "code"]: for slide in lesson_metadata[type]
Activities(meta) == meta.quiz \o meta.code

\* The loop body, folded over the activities in order. acc.scores is doubled
\* (raw score times doubled factor), acc.points_total is in raw points.
RECURSIVE Accumulate(_, _, _, _)
Accumulate(acts, on_time, res, acc) ==
    IF acts = <<>> THEN acc
    ELSE LET slide == Head(acts)
             slide_scores == res[slide]
             slide_out_of == SeriesMax(slide_scores)
             slide_on_time == on_time[slide]
         IN  Accumulate(Tail(acts), on_time, res,
                 [scores |-> InplaceAdd(acc.scores,
                                        SeriesMul(slide_scores, slide_on_time)),
                  points_total |-> FAdd(acc.points_total, slide_out_of)])

\* scores / points_total; scores is doubled, so the denominator is doubled too.
compute_single_lesson_score(meta, d, on_time, res) ==
    LET acc == Accumulate(Activities(meta), on_time, res,
                   [scores |-> [s \in DOMAIN d |-> F(0)],
                    points_total |-> F(0)])
    IN  [s \in DOMAIN acc.scores |->
            Quot(acc.scores[s], FMul(F(2), acc.points_total))]

----------------------------------------------------------------------------
(* compute_total_score                                                      *)

TotalCol == "total"

\* Series.sum() / DataFrame.sum(axis=1): NaN entries are skipped.
RECURSIVE RowSum(_, _)
RowSum(row, cols) ==
    IF cols = <<>> THEN 0
    ELSE (IF row[Head(cols)].nan THEN 0 ELSE row[Head(cols)].v)
         + RowSum(row, Tail(cols))

\* The total left unclipped.
ClipNothing(x, upper) == x

\* Series.clip(upper=u)
Clip(x, upper) == IF x > upper THEN upper ELSE x

\* A total that leaves the first lesson column out of the sum.
compute_total_score_skipping_first(gb, names, drop) ==
    [s \in DOMAIN gb |->
        [c \in (DOMAIN gb[s]) \cup {TotalCol} |->
            IF c = TotalCol
            THEN F(Clip(RowSum(gb[s], IF names = <<>> THEN names ELSE Tail(names)),
                        2 * (Len(names) - drop)))
            ELSE gb[s][c]]]

\* Lesson scores are kept doubled, so the cap is doubled as well.
compute_total_score(gb, names, drop) ==
    [s \in DOMAIN gb |->
        [c \in (DOMAIN gb[s]) \cup {TotalCol} |->
            IF c = TotalCol
            THEN F(Clip(RowSum(gb[s], names), 2 * (Len(names) - drop)))
            ELSE gb[s][c]]]

----------------------------------------------------------------------------
(* binary64 arithmetic of the totals                                        *)
(*                                                                         *)
(* The lesson scores are float64 values and sum(axis=1) adds them with      *)
(* rounding. On scores that are multiples of 0.5 every addition is exact,   *)
(* which is what compute_total_score above computes; on other quotients the *)
(* additions round. A float64 that is not missing and not negative is       *)
(* [nan |-> FALSE, neg |-> FALSE, m, e]: m is the significand, a sequence   *)
(* of Precision bits with the most significant bit first, and the value is  *)
(* m * 2^e. m is all 0 for zero and starts with 1 otherwise (the values of  *)
(* the model are far from the subnormal and the overflow range). neg marks  *)
(* the negative of the value; only a cap can be negative.                   *)

Precision == 53

Zeros(n) == [i \in 1..n |-> 0]

RECURSIVE Pow2(_)
Pow2(n) == IF n = 0 THEN 1 ELSE 2 * Pow2(n - 1)

\* The bits from the first 1 on.
StripZeros(bits) ==
    IF \A i \in 1..Len(bits) : bits[i] = 0 THEN <<>>
    ELSE LET first == CHOOSE i \in 1..Len(bits) :
                          bits[i] = 1 /\ \A j \in 1..(i - 1) : bits[j] = 0
         IN  SubSeq(bits, first, Len(bits))

\* bits + 1; one bit longer when every bit was 1.
Increment(bits) ==
    IF \A i \in 1..Len(bits) : bits[i] = 1 THEN <<1>> \o Zeros(Len(bits))
    ELSE LET last0 == CHOOSE i \in 1..Len(bits) :
                          bits[i] = 0 /\ \A j \in (i + 1)..Len(bits) : bits[j] = 1
         IN  [i \in 1..Len(bits) |->
                 IF i < last0 THEN bits[i] ELSE IF i = last0 THEN 1 ELSE 0]

\* a + b for two sequences of the same length; one bit longer. The carry
\* out of position i is 1 when a position behind it has two 1s and every
\* position between them has exactly one.
CarryOut(a, b, i) ==
    IF \E j \in i..Len(a) :
           /\ a[j] = 1
           /\ b[j] = 1
           /\ \A k \in i..(j - 1) : a[k] + b[k] = 1
    THEN 1 ELSE 0
AddBits(a, b) ==
    [i \in 1..(Len(a) + 1) |->
        IF i = 1 THEN CarryOut(a, b, 1)
        ELSE (a[i - 1] + b[i - 1] + CarryOut(a, b, i)) % 2]

RECURSIVE IntBits(_)
IntBits(n) == IF n = 0 THEN <<>> ELSE IntBits(n \div 2) \o <<n % 2>>

Zero64 == [nan |-> FALSE, neg |-> FALSE, m |-> Zeros(Precision), e |-> 0]
NaN64 == [nan |-> TRUE, neg |-> FALSE, m |-> Zeros(Precision), e |-> 0]
IsZero64(x) == x.m = Zeros(Precision)

\* The float64 nearest to bits * 2^e, ties to the even significand.
RoundNearestEven(bits, e) ==
    LET b == StripZeros(bits)
    IN  IF b = <<>> THEN Zero64
        ELSE IF Len(b) <= Precision
        THEN [nan |-> FALSE, neg |-> FALSE,
              m |-> b \o Zeros(Precision - Len(b)),
              e |-> e - (Precision - Len(b))]
        ELSE LET keep == SubSeq(b, 1, Precision)
                 rest == SubSeq(b, Precision + 1, Len(b))
                 up == /\ rest[1] = 1
                       /\ \/ keep[Precision] = 1
                          \/ \E i \in 2..Len(rest) : rest[i] = 1
                 e2 == e + Len(rest)
                 inc == Increment(keep)
             IN  IF ~up
                 THEN [nan |-> FALSE, neg |-> FALSE, m |-> keep, e |-> e2]
                 ELSE IF Len(inc) > Precision
                 THEN [nan |-> FALSE, neg |-> FALSE,
                       m |-> SubSeq(inc, 1, Precision), e |-> e2 + 1]
                 ELSE [nan |-> FALSE, neg |-> FALSE, m |-> inc, e |-> e2]

\* x + y for two floats that are not missing and not negative.
Add64(x, y) ==
    IF IsZero64(x) THEN y
    ELSE IF IsZero64(y) THEN x
    ELSE LET lo == IF x.e < y.e THEN x.e ELSE y.e
             xb == x.m \o Zeros(x.e - lo)
             yb == y.m \o Zeros(y.e - lo)
             n == IF Len(xb) > Len(yb) THEN Len(xb) ELSE Len(yb)
         IN  RoundNearestEven(AddBits(Zeros(n - Len(xb)) \o xb,
                                      Zeros(n - Len(yb)) \o yb), lo)

\* The first ChunkBits * n bits behind the point of r / den, for r < den,
\* ChunkBits at a time, followed by one bit that says whether anything is
\* left behind them.
ChunkBits == 8
Chunk(q) == [i \in 1..ChunkBits |-> (q \div Pow2(ChunkBits - i)) % 2]
RECURSIVE FractionBits(_, _, _)
FractionBits(r, den, n) ==
    IF n = 0 THEN <<IF r = 0 THEN 0 ELSE 1>>
    ELSE Chunk((r * Pow2(ChunkBits)) \div den)
             \o FractionBits((r * Pow2(ChunkBits)) % den, den, n - 1)

\* num / den as a float64, for integers num >= 0 and den > 0 (the quotient
\* of line 109 on whole numbers of points).
FractionChunks == 8
Div64(num, den) ==
    RoundNearestEven(IntBits(num \div den)
                         \o FractionBits(num % den, den, FractionChunks),
                     0 - (ChunkBits * FractionChunks + 1))

\* float(n) for an integer n.
Int64(n) ==
    IF n >= 0 THEN RoundNearestEven(IntBits(n), 0)
    ELSE [RoundNearestEven(IntBits(0 - n), 0) EXCEPT !.neg = TRUE]

\* a < b for two bit sequences of the same length.
BitsLess(a, b) ==
    \E i \in 1..Len(a) :
        /\ a[i] < b[i]
        /\ \A j \in 1..(i - 1) : a[j] = b[j]

\* x > y for a float x that is not negative and a float y.
Greater64(x, y) ==
    IF y.neg THEN TRUE
    ELSE IF IsZero64(x) THEN FALSE
    ELSE IF IsZero64(y) THEN TRUE
    ELSE x.e > y.e \/ (x.e = y.e /\ BitsLess(y.m, x.m))

\* DataFrame.sum(axis=1), fewer than eight columns: the missing scores
\* count 0 and the others are added from the left, one after the other.
RECURSIVE RowSum64(_, _, _)
RowSum64(row, cols, acc) ==
    IF cols = <<>> THEN acc
    ELSE RowSum64(row, Tail(cols),
                  IF row[Head(cols)].nan THEN acc
                  ELSE Add64(acc, row[Head(cols)]))

\* Series.clip(upper=u) on float64
Clip64(x, upper) == IF Greater64(x, upper) THEN upper ELSE x

\* The last drop_lowest columns left out of the sum, and no cap.
compute_total_score_dropping_last(gb, names, total_col, drop) ==
    [s \in DOMAIN gb |->
        [c \in (DOMAIN gb[s]) \cup {total_col} |->
            IF c = total_col
            THEN RowSum64(gb[s],
                          SubSeq(names, 1,
                                 IF drop > Len(names) THEN 0 ELSE Len(names) - drop),
                          Zero64)
            ELSE gb[s][c]]]

\* compute_total_score on float64 scores, with its total_col argument.
compute_total_score_f64(gb, names, total_col, drop) ==
    [s \in DOMAIN gb |->
        [c \in (DOMAIN gb[s]) \cup {total_col} |->
            IF c = total_col
            THEN Clip64(RowSum64(gb[s], names, Zero64), Int64(Len(names) - drop))
            ELSE gb[s][c]]]

----------------------------------------------------------------------------
(* Canvas (teachingtoolshed/gradebook/canvas.py)                            *)
(*                                                                         *)
(* A gradebook cell is a number, a missing value or a text:                 *)
(* [k, v, s] with k in {"num", "nan", "str"}. Column names and texts are    *)
(* sequences of characters, so that str.startswith and the conversion of a *)
(* text to a float can be computed.                                        *)

Num(n) == [k |-> "num", v |-> n, s |-> <<>>]
Missing == [k |-> "nan", v |-> 0, s |-> <<>>]
Str(t) == [k |-> "str", v |-> 0, s |-> t]

\* str.startswith
StartsWith(name, prefix) ==
    /\ Len(prefix) <= Len(name)
    /\ SubSeq(name, 1, Len(prefix)) = prefix

Raised == [ok |-> FALSE, col |-> <<>>]
Returned(c) == [ok |-> TRUE, col |-> c]

\* The last of several matches, not the first.
FindColumnLast(cols, col_name_prefix, grab_first) ==
    IF \E i \in 1..Len(cols) : cols[i] = col_name_prefix
    THEN Returned(col_name_prefix)
    ELSE LET potential_columns ==
                 SelectSeq(cols, LAMBDA c : StartsWith(c, col_name_prefix))
         IN  IF Len(potential_columns) = 1
                \/ (grab_first /\ Len(potential_columns) > 1)
             THEN Returned(potential_columns[Len(potential_columns)])
             ELSE Raised

\* A resolution by prefix only, without the test for an exact name.
FindColumnByPrefix(cols, col_name_prefix, grab_first) ==
    LET potential_columns ==
            SelectSeq(cols, LAMBDA c : StartsWith(c, col_name_prefix))
    IN  IF Len(potential_columns) = 1
           \/ (grab_first /\ Len(potential_columns) > 1)
        THEN Returned(potential_columns[1])
        ELSE Raised

\* Canvas._find_column
FindColumn(cols, col_name_prefix, grab_first) ==
    IF \E i \in 1..Len(cols) : cols[i] = col_name_prefix
    THEN Returned(col_name_prefix)
    ELSE LET potential_columns ==
                 SelectSeq(cols, LAMBDA c : StartsWith(c, col_name_prefix))
         IN  IF Len(potential_columns) = 1
                \/ (grab_first /\ Len(potential_columns) > 1)
             THEN Returned(potential_columns[1])
             ELSE Raised

\* A ledger that records each column once.
RecordChangeOnce(ledger, col) ==
    IF \E i \in 1..Len(ledger) : ledger[i] = col THEN ledger
    ELSE Append(ledger, col)

\* self.changes.append(canvas_col_name)
RecordChange(ledger, col) == Append(ledger, col)

\* csv_reader.scores is a sequence of rows <<sid, score>>, in file order.
Matches(reader, sid) == SelectSeq(reader, LAMBDA row : row[1] = sid)

\* canvas.join(csv_reader.scores, how="left")[score_col]: one entry per
\* gradebook row and matching reader row, a missing value where no reader
\* row matches. A gradebook row matched twice appears twice in the result,
\* and assigning a Series with a duplicated index to a column raises.
JoinHasDuplicates(cv, reader) ==
    \E sid \in DOMAIN cv : Len(Matches(reader, sid)) > 1
LeftJoin(cv, reader) ==
    [sid \in DOMAIN cv |->
        IF Len(Matches(reader, sid)) = 0 THEN Missing
        ELSE Matches(reader, sid)[1][2]]

\* The fill left out.
FillNaNothing(cell, value) == cell

\* Series.fillna(value)
FillNa(cell, value) == IF cell.k = "nan" THEN Num(value) ELSE cell

\* Lines 89-94: the column after the join and the fill.
MergedColumn(cv, reader) ==
    [sid \in DOMAIN cv |-> FillNa(LeftJoin(cv, reader)[sid], 0)]

\* An assignment that writes the series into every column.
SetEveryColumn(cv, col, series) ==
    [sid \in DOMAIN cv |-> [c \in DOMAIN cv[sid] |-> series[sid]]]

\* self.canvas[col] = series (aligned on the index)
SetColumn(cv, col, series) ==
    [sid \in DOMAIN cv |-> [cv[sid] EXCEPT ![col] = series[sid]]]

\* self.canvas.loc[student_id, col] = score; a label that is not in the
\* index enlarges the frame by a row that is missing everywhere else.
SetCell(cv, cols, student_id, col, score) ==
    [sid \in (DOMAIN cv) \cup {student_id} |->
        IF sid = student_id
        THEN [c \in {cols[i] : i \in 1..Len(cols)} |->
                 IF c = col THEN score
                 ELSE IF sid \in DOMAIN cv THEN cv[sid][c] ELSE Missing]
        ELSE cv[sid]]

\* A snapshot that shares its cells with the gradebook.
OriginalShared(orig, cv) == [sid \in DOMAIN orig |-> cv[sid]]

\* self.original_canvas after a write to self.canvas: self.canvas is the
\* frame that set_index returned, a copy, so the write does not reach the
\* snapshot, and no method assigns to self.original_canvas.
OriginalAfterWrite(orig, cv) == orig

\* The index after self.canvas.loc[student_id, col] = score: a label that is
\* not in the index is appended to it.
EnlargeIndex(idx, student_id) ==
    IF \E i \in 1..Len(idx) : idx[i] = student_id THEN idx
    ELSE Append(idx, student_id)

\* float(text) for the unsigned decimal numerals "3", "3.0", "12.50": the
\* digits, with at most one point among them and at least one digit. (Signs,
\* exponents, blanks and the words nan and inf are not among the inputs.)
DigitValue(c) ==
    CASE c = "0" -> 0 [] c = "1" -> 1 [] c = "2" -> 2 [] c = "3" -> 3
      [] c = "4" -> 4 [] c = "5" -> 5 [] c = "6" -> 6 [] c = "7" -> 7
      [] c = "8" -> 8 [] c = "9" -> 9
IsDigit(c) == c \in {"0", "1", "2", "3", "4", "5", "6", "7", "8", "9"}
IsNumeral(t) ==
    /\ \A i \in 1..Len(t) : IsDigit(t[i]) \/ t[i] = "."
    /\ Cardinality({i \in 1..Len(t) : t[i] = "."}) <= 1
    /\ \E i \in 1..Len(t) : IsDigit(t[i])

RECURSIVE DigitsValue(_)
DigitsValue(ds) ==
    IF ds = <<>> THEN 0
    ELSE 10 * DigitsValue(SubSeq(ds, 1, Len(ds) - 1)) + DigitValue(ds[Len(ds)])

RECURSIVE Pow10(_)
Pow10(n) == IF n = 0 THEN 1 ELSE 10 * Pow10(n - 1)

\* The float of a numeral: its digits read as an integer m, and the number e
\* of digits behind the point; the value is m / 10^e.
ParseFloat(t) ==
    [m |-> DigitsValue(SelectSeq(t, IsDigit)),
     e |-> IF \E i \in 1..Len(t) : t[i] = "."
           THEN Len(t) - (CHOOSE i \in 1..Len(t) : t[i] = ".")
           ELSE 0]

\* Series.astype(float) on one cell that is not missing.
AsFloat(cell) ==
    IF cell.k = "num" THEN [m |-> cell.v, e |-> 0] ELSE ParseFloat(cell.s)

\* Equality of two floats m / 10^e.
FloatEq(x, y) == x.m * Pow10(y.e) = y.m * Pow10(x.e)

\* Series.astype(float): a text that is not a number raises.
CanCastToFloat(cell) == cell.k # "str" \/ IsNumeral(cell.s)
\* The cells compared as they are stored, without the cast.
DiffersUncast(old, new) == old.k = "nan" \/ new.k = "nan" \/ old # new

\* A comparison that is false whenever a side is missing.
DiffersOrdered(old, new) ==
    old.k # "nan" /\ new.k # "nan" /\ ~FloatEq(AsFloat(old), AsFloat(new))

\* old.astype(float) != new.astype(float): NaN differs from everything,
\* itself included.
Differs(old, new) ==
    old.k = "nan" \/ new.k = "nan" \/ ~FloatEq(AsFloat(old), AsFloat(new))

\* original_canvas.merge(canvas, on=sid_col): the students in both frames.
MergedRows(orig, cv) == (DOMAIN orig) \cap (DOMAIN cv)

\* The loop of report_diffs over the ledger: the rows with a difference in
\* some changed column.
DiffRows(orig, cv, ledger) ==
    {sid \in MergedRows(orig, cv) :
        \E i \in 1..Len(ledger) : Differs(orig[sid][ledger[i]], cv[sid][ledger[i]])}

\* Lines 155-159: the columns of the returned frame, the merged frame's
\* name of each: the student name of the original, the identifier, then
\* every ledger column of the original, then every ledger column of the
\* current gradebook.
SidCol == <<"I", "d">>
ReportCols(student_name_col, ledger) ==
    <<[col |-> student_name_col, side |-> "old"], [col |-> SidCol, side |-> "key"]>>
    \o [i \in 1..Len(ledger) |-> [col |-> ledger[i], side |-> "old"]]
    \o [i \in 1..Len(ledger) |-> [col |-> ledger[i], side |-> "new"]]

\* report_diffs raises when a changed column cannot be cast to float, and
\* when the ledger is empty (diffs stays None and has no sum()).
ReportRaises(orig, cv, ledger) ==
    \/ ledger = <<>>
    \/ \E i \in 1..Len(ledger) : \E sid \in MergedRows(orig, cv) :
          \/ ~CanCastToFloat(orig[sid][ledger[i]])
          \/ ~CanCastToFloat(cv[sid][ledger[i]])

----------------------------------------------------------------------------
(* Inputs of the scoring functions.                                         *)

Students == {"a", "b"}

MaxDueDay == 1
\* Due dates at 09:00 on day 0 .. MaxDueDay; minute 0 is 2024-01-10T00:00.
DueDates == {9 * 60 + MinutesPerDay * k : k \in 0..MaxDueDay}

\* Completion times relative to the due date: inside the grace window, at
\* its end, six days late, at the late cutoff, and past it.
Offsets ==
    {10, GraceMinutes, 6 * MinutesPerDay + 10,
     GraceMinutes + LateDays * MinutesPerDay,
     GraceMinutes + LateDays * MinutesPerDay + 1}

\* Student a ranges over every case; the classmate b is either early or
\* never completes.
CellTimes(s, due) ==
    IF s = "a" THEN {At(due + o) : o \in Offsets} \cup {NaT}
    ELSE {At(due + 10), NaT}
RawScores(s) == IF s = "a" THEN {0, 10, 20} ELSE {0, 20}

Metadatas ==
    {[quiz |-> q, code |-> c] : q \in {<<>>, <<"quiz1">>}, c \in {<<>>, <<"code1">>}}

SlideColumns(meta) == {Activities(meta)[i] : i \in 1..Len(Activities(meta))}

CompletionTables(slides, due) ==
    UNION {{d \in [idx -> [slides -> {At(due + o) : o \in Offsets} \cup {NaT}]] :
               \A s \in idx : \A sl \in slides : d[s][sl] \in CellTimes(s, due)} :
           idx \in SUBSET Students}

ScoreTables ==
    UNION {{t \in [idx -> {F(r) : r \in {0, 10, 20}}] :
               \A s \in idx : t[s].v \in RawScores(s)} :
           idx \in SUBSET Students}

Empty == [s \in {} |-> NaN]

\* The outcome of the last call on the object. again says that an add_grades
\* repeats the successful add_grades right before it: same column, same
\* score series.
NoCall ==
    [op |-> "none", ok |-> TRUE, prefix |-> <<>>, grab_first |-> FALSE,
     col |-> <<>>, reader |-> <<>>, sid |-> "", val |-> Missing, rows |-> {},
     count |-> 0, cols |-> <<>>, again |-> FALSE]

CanvasIdle ==
    /\ original_canvas = Empty
    /\ canvas = Empty
    /\ index = <<>>
    /\ columns = <<>>
    /\ changes = <<>>
    /\ nwrites = 0
    /\ last = NoCall

LessonIdle ==
    /\ lesson_metadata = [quiz |-> <<>>, code |-> <<>>]
    /\ df = Empty
    /\ due_date = 0
    /\ results = Empty
    /\ all_on_time = Empty
    /\ lesson_scores = Empty
    /\ lpc = "idle"

TotalIdle ==
    /\ gradebook = Empty
    /\ lesson_column_names = <<>>
    /\ drop_lowest = 0
    /\ tpc = "idle"
    /\ permuted_names = <<>>

----------------------------------------------------------------------------
(* SpecLesson: one call of compute_single_lesson_score.                     *)

LessonInit ==
    /\ lesson_metadata \in Metadatas
    /\ due_date \in DueDates
    /\ df \in CompletionTables(SlideColumns(lesson_metadata), due_date)
    /\ results \in [SlideColumns(lesson_metadata) -> ScoreTables]
    /\ all_on_time = Empty
    /\ lesson_scores = Empty
    /\ lpc = "start"
    /\ TotalIdle
    /\ CanvasIdle

\* Lines 75-81: the deadlines and the frame of time factors.
ComputeOnTime ==
    /\ lpc = "start"
    /\ all_on_time' = AllOnTime(df, SlideColumns(lesson_metadata), due_date)
    /\ lpc' = "timed"
    /\ UNCHANGED <<lesson_metadata, df, due_date, results, lesson_scores>>
    /\ UNCHANGED <<totalVars, canvasVars>>

\* Lines 84-109: the loop over the activities and the final division.
ComputeScores ==
    /\ lpc = "timed"
    /\ lesson_scores' =
           compute_single_lesson_score(lesson_metadata, df, all_on_time, results)
    /\ lpc' = "done"
    /\ UNCHANGED <<lesson_metadata, df, due_date, results, all_on_time>>
    /\ UNCHANGED <<totalVars, canvasVars>>

LessonNext == ComputeOnTime \/ ComputeScores

vars == <<lessonVars, totalVars, canvasVars>>

SpecLesson == LessonInit /\ [][LessonNext]_vars

----------------------------------------------------------------------------
(* SpecRaise: compute_single_lesson_score called a second time on the same  *)
(* completions after one raw score of one activity has been raised.         *)

\* A raw score of the score file of slide is replaced by a higher one and
\* lines 84-109 run again; the timestamps, and with them all_on_time, are
\* the same.
RaiseRawScore(slide, s, raw) ==
    /\ lpc = "done"
    /\ slide \in DOMAIN results
    /\ s \in DOMAIN results[slide]
    /\ raw > results[slide][s].v
    /\ results' = [results EXCEPT ![slide][s] = F(raw)]
    /\ lesson_scores' =
           compute_single_lesson_score(lesson_metadata, df, all_on_time, results')
    /\ lpc' = "raised"
    /\ UNCHANGED <<lesson_metadata, df, due_date, all_on_time>>
    /\ UNCHANGED <<totalVars, canvasVars>>

RaiseNext ==
    \/ ComputeOnTime
    \/ ComputeScores
    \/ \E slide \in {"quiz1", "code1"}, s \in Students, raw \in {10, 20} :
          RaiseRawScore(slide, s, raw)

SpecRaise == LessonInit /\ [][RaiseNext]_vars

----------------------------------------------------------------------------
(* SpecTotal: one call of compute_total_score.                              *)

MaxCells == 5     \* rows times lesson columns of the gradebook
MaxDrop == 6

LessonColumnNames == <<"L1", "L2", "L3", "L4", "L5", "L6", "L7", "L8">>

\* A lesson score column holds 0, 0.5 or 1 (doubled) or NaN.
LessonScoreCells == {NaN, F(0), F(1), F(2)}

TotalInit ==
    /\ \E n \in 0..MaxCells :
          /\ lesson_column_names = SubSeq(LessonColumnNames, 1, n)
          /\ \E idx \in SUBSET Students :
                /\ idx # {}
                /\ Cardinality(idx) * n <= MaxCells
                /\ gradebook \in
                      [idx -> [{LessonColumnNames[i] : i \in 1..n} -> LessonScoreCells]]
    /\ drop_lowest \in 0..MaxDrop
    /\ tpc = "start"
    /\ permuted_names = lesson_column_names
    /\ LessonIdle
    /\ CanvasIdle

ComputeTotalScore ==
    /\ tpc = "start"
    /\ gradebook' = compute_total_score(gradebook, lesson_column_names, drop_lowest)
    /\ tpc' = "done"
    /\ UNCHANGED <<lesson_column_names, drop_lowest, permuted_names>>
    /\ UNCHANGED <<lessonVars, canvasVars>>

TotalNext == ComputeTotalScore

SpecTotal == TotalInit /\ [][TotalNext]_vars

----------------------------------------------------------------------------
(* SpecOrder: compute_total_score called twice on one gradebook of float64  *)
(* scores, the second time with the lesson columns in another order and     *)
(* another total column.                                                    *)

MaxLessons == 3

PermutedTotalCol == "total2"

\* Lesson scores as line 109 returns them: 1/10, 2/10, 3/10 and 7/10 of the
\* points, or missing.
Score64Cells == {NaN64, Div64(1, 10), Div64(2, 10), Div64(3, 10), Div64(7, 10)}

\* drop_lowest: nothing dropped, and caps of n - 2 and n - 4.
OrderDrops == {0, 2, 4}

Reorderings(names) ==
    {[i \in 1..Len(names) |-> names[p[i]]] :
        p \in {q \in [1..Len(names) -> 1..Len(names)] :
                  \A i, j \in 1..Len(names) : q[i] = q[j] => i = j}}

OrderInit ==
    /\ \E n \in 0..MaxLessons :
          /\ lesson_column_names = SubSeq(LessonColumnNames, 1, n)
          /\ gradebook \in
                [{"a"} -> [{LessonColumnNames[i] : i \in 1..n} -> Score64Cells]]
    /\ permuted_names \in Reorderings(lesson_column_names)
    /\ drop_lowest \in OrderDrops
    /\ tpc = "start"
    /\ LessonIdle
    /\ CanvasIdle

\* compute_total_score(gradebook, lesson_column_names, drop_lowest=d)
ComputeTotalScore64 ==
    /\ tpc = "start"
    /\ gradebook' = compute_total_score_f64(gradebook, lesson_column_names,
                                            TotalCol, drop_lowest)
    /\ tpc' = "done"
    /\ UNCHANGED <<lesson_column_names, drop_lowest, permuted_names>>
    /\ UNCHANGED <<lessonVars, canvasVars>>

\* compute_total_score(gradebook, permuted_names, "total2", drop_lowest=d)
ComputeTotalScorePermuted ==
    /\ tpc = "done"
    /\ gradebook' = compute_total_score_f64(gradebook, permuted_names,
                                            PermutedTotalCol, drop_lowest)
    /\ tpc' = "permuted"
    /\ UNCHANGED <<lesson_column_names, drop_lowest, permuted_names>>
    /\ UNCHANGED <<lessonVars, canvasVars>>

OrderNext == ComputeTotalScore64 \/ ComputeTotalScorePermuted

SpecOrder == OrderInit /\ [][OrderNext]_vars

----------------------------------------------------------------------------
(* Spec: a session with one Canvas object.                                  *)

MaxWrites == 2       \* calls that change the object in one session

ColStudent == <<"S", "t">>
ColA == <<"A">>
ColA1 == <<"A", "1">>
ColA2 == <<"A", "2">>
ColB1 == <<"B", "1">>

\* The columns of the export after the identifier column has become the
\* index: the student name, then two assignments.
ColumnLayouts ==
    {<<ColStudent, ColA2, ColA1>>, <<ColStudent, ColA, ColA1>>,
     <<ColStudent, ColA2, ColB1>>}

Roster == {"a", "b"}
RosterOrder == <<"a", "b">>     \* the student rows of the export, in order
StudentName(sid) ==
    IF sid = "a" THEN Str(<<"A", "n", "n">>) ELSE Str(<<"B", "o", "b">>)

\* An assignment column of the export is empty, or already graded and
\* read as numbers, or already graded and read as texts (read_csv keeps a
\* column as texts when a cell of its header rows is not a number).
OriginalColumns ==
    {[sid \in Roster |-> Missing],
     [sid \in Roster |-> IF sid = "a" THEN Num(1) ELSE Num(0)],
     [sid \in Roster |-> IF sid = "a" THEN Str(<<"1">>)
                         ELSE Str(<<"2", ".", "0">>)]}

Prefixes == {<<"A">>, <<"A", "1">>, <<"B">>}

\* Score files: empty; one enrolled student; both; an enrolled and an
\* unknown student; a blank score; one identifier on two rows.
Readers ==
    {<<>>,
     <<<<"a", Num(1)>>>>,
     <<<<"b", Num(2)>>, <<"a", Num(1)>>>>,
     <<<<"b", Num(2)>>, <<"c", Num(3)>>>>,
     <<<<"a", Missing>>, <<"b", Num(2)>>>>,
     <<<<"a", Num(1)>>, <<"a", Num(2)>>>>,
     <<<<"c", Num(3)>>, <<"c", Num(4)>>>>}

StudentIds == {"a", "c"}
SetScores == {Num(5)}

\* Canvas.__init__
CanvasInit ==
    /\ columns \in ColumnLayouts
    /\ \E c2 \in OriginalColumns, c3 \in OriginalColumns :
          original_canvas =
              [sid \in Roster |->
                  [c \in {columns[i] : i \in 1..3} |->
                      IF c = columns[1] THEN StudentName(sid)
                      ELSE IF c = columns[2] THEN c2[sid] ELSE c3[sid]]]
    /\ canvas = original_canvas
    /\ index = RosterOrder
    /\ changes = <<>>
    /\ nwrites = 0
    /\ last = NoCall
    /\ LessonIdle
    /\ TotalIdle

Call(op, prefix, grab_first, found) ==
    [NoCall EXCEPT !.op = op, !.prefix = prefix, !.grab_first = grab_first,
                   !.ok = found.ok, !.col = found.col]

\* Canvas._find_column(col_name_prefix, grab_first)
FindColumnCall(prefix, grab_first) ==
    /\ last' = Call("_find_column", prefix, grab_first,
                    FindColumn(columns, prefix, grab_first))
    /\ UNCHANGED <<original_canvas, canvas, index, columns, changes, nwrites>>
    /\ UNCHANGED <<lessonVars, totalVars>>

\* The call add_grades(col, reader) follows a successful add_grades of the
\* same series into the same column.
Repeats(col, reader) ==
    /\ last.op = "add_grades"
    /\ last.ok
    /\ last.col = col
    /\ last.reader = reader

\* Canvas.add_grades(canvas_col_name, csv_reader, grab_first)
AddGrades(prefix, reader, grab_first) ==
    LET found == FindColumn(columns, prefix, grab_first)
    IN  /\ nwrites < MaxWrites
        /\ IF ~found.ok
           THEN /\ last' = [Call("add_grades", <<>>, FALSE, found)
                               EXCEPT !.reader = reader]
                /\ UNCHANGED <<canvas, changes, nwrites>>
           ELSE /\ changes' = RecordChange(changes, found.col)
                /\ nwrites' = nwrites + 1
                /\ IF JoinHasDuplicates(canvas, reader)
                   THEN /\ canvas' = canvas
                        /\ last' = [Call("add_grades", <<>>, FALSE, found)
                                       EXCEPT !.reader = reader, !.ok = FALSE]
                   ELSE /\ canvas' = SetColumn(canvas, found.col,
                                               MergedColumn(canvas, reader))
                        /\ last' = [Call("add_grades", <<>>, FALSE, found)
                                       EXCEPT !.reader = reader,
                                              !.again = Repeats(found.col, reader)]
        /\ original_canvas' = OriginalAfterWrite(original_canvas, canvas')
        /\ UNCHANGED <<index, columns>>
        /\ UNCHANGED <<lessonVars, totalVars>>

\* Canvas.set_grade(student_id, canvas_col_name, score, grab_first)
SetGrade(student_id, prefix, score, grab_first) ==
    LET found == FindColumn(columns, prefix, grab_first)
    IN  /\ nwrites < MaxWrites
        /\ last' = [Call("set_grade", <<>>, FALSE, found)
                       EXCEPT !.sid = student_id, !.val = score]
        /\ IF ~found.ok
           THEN UNCHANGED <<canvas, index, nwrites>>
           ELSE /\ canvas' = SetCell(canvas, columns, student_id, found.col, score)
                /\ index' = EnlargeIndex(index, student_id)
                /\ nwrites' = nwrites + 1
        /\ original_canvas' = OriginalAfterWrite(original_canvas, canvas')
        /\ UNCHANGED <<columns, changes>>
        /\ UNCHANGED <<lessonVars, totalVars>>

\* Canvas.get_grade(student_id, canvas_col_name, grab_first)
GetGrade(student_id, prefix, grab_first) ==
    LET found == FindColumn(columns, prefix, grab_first)
    IN  /\ last' =
               IF found.ok /\ student_id \in DOMAIN canvas
               THEN [Call("get_grade", <<>>, FALSE, found)
                        EXCEPT !.sid = student_id,
                               !.val = canvas[student_id][found.col]]
               ELSE [Call("get_grade", <<>>, FALSE, found)
                        EXCEPT !.sid = student_id, !.ok = FALSE]
        /\ UNCHANGED <<original_canvas, canvas, index, columns, changes, nwrites>>
        /\ UNCHANGED <<lessonVars, totalVars>>
    /\ UNCHANGED <<lessonVars, totalVars>>

\* Canvas.report_diffs()
ReportDiffs ==
    /\ last' =
           IF ReportRaises(original_canvas, canvas, changes)
           THEN [NoCall EXCEPT !.op = "report_diffs", !.ok = FALSE]
           ELSE LET diffs == DiffRows(original_canvas, canvas, changes)
                IN  IF Cardinality(diffs) = 0
                    THEN [NoCall EXCEPT !.op = "report_diffs"]
                    ELSE [NoCall EXCEPT !.op = "report_diffs",
                                        !.rows = diffs,
                                        !.count = Cardinality(diffs),
                                        !.cols = ReportCols(columns[1], changes)]
    /\ UNCHANGED <<original_canvas, canvas, index, columns, changes, nwrites>>
    /\ UNCHANGED <<lessonVars, totalVars>>

\* Canvas.export(filename)
Export ==
    /\ last' = [NoCall EXCEPT !.op = "export"]
    /\ UNCHANGED <<original_canvas, canvas, index, columns, changes, nwrites>>
    /\ UNCHANGED <<lessonVars, totalVars>>

CanvasNext ==
    \/ \E p \in Prefixes, g \in BOOLEAN : FindColumnCall(p, g)
    \/ \E p \in Prefixes, r \in Readers, g \in BOOLEAN : AddGrades(p, r, g)
    \/ \E sid \in StudentIds, p \in Prefixes, v \in SetScores, g \in BOOLEAN :
          SetGrade(sid, p, v, g)
    \/ \E sid \in StudentIds, p \in Prefixes, g \in BOOLEAN : GetGrade(sid, p, g)
    \/ ReportDiffs
    \/ Export

Spec == CanvasInit /\ [][CanvasNext]_vars

----------------------------------------------------------------------------
(* Properties of compute_single_lesson_score (under SpecLesson).            *)

Acts == Activities(lesson_metadata)
ActIdx == 1..Len(Acts)

RECURSIVE SumOver(_, _)
SumOver(f, S) ==
    IF S = {} THEN 0
    ELSE LET i == CHOOSE j \in S : TRUE IN f[i] + SumOver(f, S \ {i})

\* The maximum raw score over all students of an activity's table.
PointsPossible(act) ==
    LET vals == {results[act][s].v : s \in DOMAIN results[act]}
    IN  IF vals = {} THEN 0 ELSE CHOOSE m \in vals : \A x \in vals : x <= m

Denominator == SumOver([i \in ActIdx |-> PointsPossible(Acts[i])], ActIdx)

\* Sum of raw_score * time_factor (doubled) over the activities whose table
\* holds the student.
Numerator2(s) ==
    LET on == {i \in ActIdx : s \in DOMAIN results[Acts[i]]}
    IN  SumOver([i \in on |-> results[Acts[i]][s].v * all_on_time[Acts[i]][s].v], on)

InEveryTable(s) == \A i \in ActIdx : s \in DOMAIN results[Acts[i]]
NoEmptyTable == \A i \in ActIdx : DOMAIN results[Acts[i]] # {}

\* C1 as stated: a completion at T <= D+15min has time factor 1.0 (T = D+15min
\* included), one at D+15min < T <= D+15min+7days has 0.5 (the late bound
\* included), a later or missing one has 0.0.
C1_TimeFactorInclusive ==
    lpc \in {"timed", "done"} =>
        \A slide \in DOMAIN all_on_time : \A s \in DOMAIN df :
            LET c == df[s][slide]
                f == all_on_time[slide][s]
                d1 == due_date + 15
                d2 == due_date + 15 + 7 * 1440
            IN  /\ (~c.nat /\ c.t <= d1) => f = F(2)
                /\ (~c.nat /\ d1 < c.t /\ c.t <= d2) => f = F(1)
                /\ (c.nat \/ c.t > d2) => f = F(0)

\* C1 amended: the deadlines are exclusive. T < D+15min has time factor 1.0,
\* D+15min <= T < D+15min+7days has 0.5, T >= D+15min+7days or a missing
\* timestamp has 0.0.
C1_TimeFactorExclusive ==
    lpc \in {"timed", "done"} =>
        \A slide \in DOMAIN all_on_time : \A s \in DOMAIN df :
            LET c == df[s][slide]
                f == all_on_time[slide][s]
                d1 == due_date + 15
                d2 == due_date + 15 + 7 * 1440
            IN  /\ (~c.nat /\ c.t < d1) => f = F(2)
                /\ (~c.nat /\ d1 <= c.t /\ c.t < d2) => f = F(1)
                /\ (c.nat \/ c.t >= d2) => f = F(0)

\* A student completed one slide exactly at D+15min and one exactly at
\* D+15min+7days, and the factors have been computed.
C1_Witness ==
    /\ lpc = "timed"
    /\ Len(Acts) = 2
    /\ "a" \in DOMAIN df
    /\ df["a"]["quiz1"] = At(due_date + 15)
    /\ df["a"]["code1"] = At(due_date + 15 + 7 * 1440)
    /\ all_on_time["quiz1"]["a"] = F(1)
    /\ all_on_time["code1"]["a"] = F(0)

\* C2: a student in the completion table and in every activity's score table
\* is scored (sum of raw_score * time_factor) / (sum of points_possible), each
\* activity's points_possible being the maximum raw score of its table.
C2_ScoreIsQuotient ==
    lpc = "done" =>
        \A s \in DOMAIN df :
            (InEveryTable(s) /\ Denominator > 0) =>
                /\ s \in DOMAIN lesson_scores
                /\ ~lesson_scores[s].nan
                /\ lesson_scores[s].den # 0
                /\ lesson_scores[s].num * (2 * Denominator)
                       = Numerator2(s) * lesson_scores[s].den

\* Two activities, student a in both tables, late on one of them and below
\* the maximum on one of them: a score strictly between 0 and 1.
C2_Witness ==
    /\ lpc = "done"
    /\ Len(Acts) = 2
    /\ "a" \in DOMAIN df
    /\ InEveryTable("a")
    /\ all_on_time["quiz1"]["a"] = F(1)
    /\ results["code1"]["a"].v < PointsPossible("code1")
    /\ ~lesson_scores["a"].nan
    /\ 0 < lesson_scores["a"].num
    /\ lesson_scores["a"].num < lesson_scores["a"].den

\* The scenario of C3: due 2024-01-10T09:00 (minute 540), a quiz with maximum
\* 10 and a code activity with maximum 20; student a completes the quiz at
\* 09:10 scoring 10 and the code activity at 2024-01-16T09:10 scoring 20.
C3_Scenario ==
    /\ lpc = "done"
    /\ due_date = 540
    /\ lesson_metadata = [quiz |-> <<"quiz1">>, code |-> <<"code1">>]
    /\ "a" \in DOMAIN df
    /\ df["a"]["quiz1"] = At(550)
    /\ df["a"]["code1"] = At(6 * 1440 + 550)
    /\ InEveryTable("a")
    /\ results["quiz1"]["a"] = F(10)
    /\ results["code1"]["a"] = F(20)
    /\ PointsPossible("quiz1") = 10
    /\ PointsPossible("code1") = 20

\* C3 as stated: the time factors are 1.0 (quiz) and 0.0 (code) and the
\* lesson score is 1/3.
C3_ScenarioThird ==
    C3_Scenario =>
        /\ all_on_time["quiz1"]["a"] = F(2)
        /\ all_on_time["code1"]["a"] = F(0)
        /\ ~lesson_scores["a"].nan
        /\ 3 * lesson_scores["a"].num = lesson_scores["a"].den

\* C3 amended: 2024-01-16T09:10 is six days and ten minutes after the due
\* date, inside the 7-day late window, so the time factors are 1.0 (quiz)
\* and 0.5 (code) and the lesson score is (10*1.0 + 20*0.5)/(10+20) = 2/3.
C3_ScenarioTwoThirds ==
    C3_Scenario =>
        /\ all_on_time["quiz1"]["a"] = F(2)
        /\ all_on_time["code1"]["a"] = F(1)
        /\ ~lesson_scores["a"].nan
        /\ 3 * lesson_scores["a"].num = 2 * lesson_scores["a"].den

\* The scenario has been scored.
C3_Witness == C3_Scenario /\ "a" \in DOMAIN lesson_scores

\* C4: a student in the completion table but absent from an activity's score
\* table gets the defined score (sum over their other activities of
\* raw_score * time_factor) / (sum of all activities' points_possible).
C4_AbsentCountsAsZero ==
    lpc = "done" =>
        \A s \in DOMAIN df :
            (~InEveryTable(s) /\ NoEmptyTable /\ Denominator > 0) =>
                /\ ~lesson_scores[s].nan
                /\ lesson_scores[s].den # 0
                /\ lesson_scores[s].num * (2 * Denominator)
                       = Numerator2(s) * lesson_scores[s].den

\* C5: when every activity has a positive maximum and no raw score is
\* negative, the lesson score of every student of the completion table lies
\* in [0, 1], and a student whose slide timestamps are all missing scores
\* exactly 0.
C5_ScoreInUnitInterval ==
    (/\ lpc = "done"
     /\ Len(Acts) >= 1
     /\ \A i \in ActIdx :
           /\ PointsPossible(Acts[i]) > 0
           /\ \A s \in DOMAIN results[Acts[i]] : results[Acts[i]][s].v >= 0) =>
        \A s \in DOMAIN df :
            /\ ~lesson_scores[s].nan
            /\ lesson_scores[s].den > 0
            /\ 0 <= lesson_scores[s].num
            /\ lesson_scores[s].num <= lesson_scores[s].den
            /\ (\A sl \in DOMAIN df[s] : df[s][sl].nat) => lesson_scores[s].num = 0

----------------------------------------------------------------------------
(* Properties of compute_total_score (under SpecTotal).                     *)

\* The sum of a student's lesson score columns (doubled), a missing score
\* adding nothing.
LessonSum2(s) ==
    LET idx == 1..Len(lesson_column_names)
    IN  SumOver([i \in idx |->
                    IF gradebook[s][lesson_column_names[i]].nan THEN 0
                    ELSE gradebook[s][lesson_column_names[i]].v], idx)

Cap2 == 2 * (Len(lesson_column_names) - drop_lowest)

C7_NoNegativeTotal ==
    tpc = "done" =>
        /\ drop_lowest <= Len(lesson_column_names)
        /\ \A s \in DOMAIN gradebook : gradebook[s][TotalCol].v >= 0

----------------------------------------------------------------------------
(* Properties of the Canvas object (under Spec).                            *)

\* The rows of the last call's score table that carry an identifier.
ReaderRowsOf(sid) == {i \in 1..Len(last.reader) : last.reader[i][1] = sid}
ReaderScore(sid) == last.reader[CHOOSE i \in ReaderRowsOf(sid) : TRUE][2]

AddGradesSucceeded == last.op = "add_grades" /\ last.ok

\* C8 as stated: after a successful add_grades every gradebook student absent
\* from the reader holds exactly 0 in the resolved column, every student
\* present in the reader holds the reader's score, and the set of student
\* rows is the one before the call.
C8_MergedColumnAsStated ==
    /\ [](AddGradesSucceeded =>
             \A sid \in DOMAIN canvas :
                 /\ ReaderRowsOf(sid) = {} => canvas[sid][last.col] = Num(0)
                 /\ ReaderRowsOf(sid) # {} =>
                        canvas[sid][last.col] = ReaderScore(sid))
    /\ [][(last'.op = "add_grades" /\ last'.ok) =>
               DOMAIN canvas' = DOMAIN canvas]_vars

\* C8 amended: a student present in the reader holds the reader's score, or
\* exactly 0 when the reader's score cell for that student is blank; a
\* student absent from the reader holds exactly 0; no cell of the column is
\* missing, and the set of student rows is the one before the call.
C8_MergedColumn ==
    /\ [](AddGradesSucceeded =>
             \A sid \in DOMAIN canvas :
                 /\ canvas[sid][last.col].k # "nan"
                 /\ ReaderRowsOf(sid) = {} => canvas[sid][last.col] = Num(0)
                 /\ ReaderRowsOf(sid) # {} =>
                        canvas[sid][last.col] =
                            IF ReaderScore(sid).k = "nan" THEN Num(0)
                            ELSE ReaderScore(sid))
    /\ [][(last'.op = "add_grades" /\ last'.ok) =>
               DOMAIN canvas' = DOMAIN canvas]_vars

\* A merge of a reader that holds b and the unknown student c into a
\* gradebook of a and b: a is filled with 0, b has its score, c has no row.
C8_Witness ==
    /\ AddGradesSucceeded
    /\ last.reader = <<<<"b", Num(2)>>, <<"c", Num(3)>>>>
    /\ DOMAIN canvas = {"a", "b"}
    /\ canvas["a"][last.col] = Num(0)
    /\ canvas["b"][last.col] = Num(2)

\* The columns that start with the prefix of the last call, by position.
IsPrefixOf(p, name) ==
    /\ Len(p) <= Len(name)
    /\ \A j \in 1..Len(p) : name[j] = p[j]
MatchingIdx == {i \in 1..Len(columns) : IsPrefixOf(last.prefix, columns[i])}
PrefixIsAColumn == \E i \in 1..Len(columns) : columns[i] = last.prefix

\* C9: for a prefix that is not itself a column name, _find_column returns
\* the column when exactly one starts with the prefix; with several and
\* grab_first False it raises; with several and grab_first True it returns
\* the first of them in the gradebook's column order.
C9_FindColumn ==
    (last.op = "_find_column" /\ ~PrefixIsAColumn) =>
        /\ Cardinality(MatchingIdx) = 1 =>
               /\ last.ok
               /\ \A i \in MatchingIdx : last.col = columns[i]
        /\ (Cardinality(MatchingIdx) > 1 /\ ~last.grab_first) => ~last.ok
        /\ (Cardinality(MatchingIdx) > 1 /\ last.grab_first) =>
               /\ last.ok
               /\ \E i \in MatchingIdx :
                     /\ \A j \in MatchingIdx : i <= j
                     /\ last.col = columns[i]

\* Prefix A with grab_first on the columns St, A2, A1: two matches, and the
\* first in column order, A2, is returned.
C9_Witness ==
    /\ last.op = "_find_column"
    /\ last.prefix = <<"A">>
    /\ last.grab_first
    /\ columns = <<ColStudent, ColA2, ColA1>>
    /\ last.ok
    /\ last.col = ColA2

IsPrefixSeq(s1, s2) ==
    /\ Len(s1) <= Len(s2)
    /\ \A i \in 1..Len(s1) : s2[i] = s1[i]

\* C10: the ledger is append-only. Every operation leaves the ledger it
\* found as a prefix of the ledger it leaves, and a successful add_grades
\* appends exactly the resolved column name at the end, duplicates kept.
C10_LedgerAppendOnly ==
    [][/\ IsPrefixSeq(changes, changes')
       /\ (last'.op = "add_grades" /\ last'.ok) =>
              changes' = changes \o <<last'.col>>]_vars

\* Two successful merges into the same column: the ledger names it twice.
C10_Witness ==
    /\ AddGradesSucceeded
    /\ Len(changes) = 2
    /\ changes[1] = changes[2]
    /\ changes[2] = last.col

InLedger(col) == \E i \in 1..Len(changes) : changes[i] = col

\* C11: set_grade writes the score into the cell of the student and the
\* resolved column and registers the resolved column in the changes ledger,
\* so that a report_diffs that follows reports the cell set_grade changed to
\* a numerically different value, also when add_grades was never called on
\* that column.
C11_SetGradeRegisters ==
    /\ []((last.op = "set_grade" /\ last.ok) =>
             /\ canvas[last.sid][last.col] = last.val
             /\ InLedger(last.col))
    /\ [][(/\ last.op = "set_grade" /\ last.ok
           /\ last.sid \in MergedRows(original_canvas, canvas)
           /\ Differs(original_canvas[last.sid][last.col],
                      canvas[last.sid][last.col])
           /\ last'.op = "report_diffs")
          => (last'.ok /\ last.sid \in last'.rows)]_vars

SecondSameMerge == last.op = "add_grades" /\ last.ok /\ last.again

\* C12 as stated: after add_grades with the same series on the same column
\* a second time, report_diffs yields an empty diff (zero changed rows),
\* whatever the first merge changed.
C12_SecondMergeEmptyDiff ==
    [][(SecondSameMerge /\ last'.op = "report_diffs") =>
           (last'.ok /\ last'.rows = {})]_vars

\* The number a gradebook cell of the sessions stands for, text or not.
NumberOf(cell) ==
    IF cell.k = "num" THEN cell.v
    ELSE IF cell.s = <<"1">> THEN 1
    ELSE IF cell.s = <<"2", ".", "0">> THEN 2
    ELSE -1

IsNumber(cell) == cell.k = "num" \/ cell.s \in {<<"1">>, <<"2", ".", "0">>}

\* The students whose cell in the column of the last merge is not the
\* number the original snapshot holds there.
ChangedInMergedColumn ==
    {sid \in (DOMAIN original_canvas) \cap (DOMAIN canvas) :
        \/ ~IsNumber(original_canvas[sid][last.col])
        \/ ~IsNumber(canvas[sid][last.col])
        \/ NumberOf(original_canvas[sid][last.col])
               # NumberOf(canvas[sid][last.col])}

\* C12 amended: the second merge of the same series into the same column
\* leaves every cell of the gradebook as the first merge left it, and a
\* report_diffs that follows and completes compares with the original
\* snapshot: every student whose cell in that column differs from the
\* original is among its changed rows.
C12_SecondMergeKeepsGradebook ==
    /\ [][(last'.op = "add_grades" /\ last'.ok /\ last'.again) =>
              canvas' = canvas]_vars
    /\ [][(SecondSameMerge /\ last'.op = "report_diffs" /\ last'.ok) =>
              ChangedInMergedColumn \subseteq last'.rows]_vars

\* The series {a: 1} merged twice into a column that was blank: both
\* students hold a number there that the original snapshot does not.
C12_Witness ==
    /\ SecondSameMerge
    /\ last.reader = <<<<"a", Num(1)>>>>
    /\ canvas["a"][last.col] = Num(1)
    /\ ChangedInMergedColumn = {"a", "b"}

ReportCompleted == last.op = "report_diffs" /\ last.ok

\* C13: report_diffs compares the original and the current cell of every
\* ledger column as numbers. A student whose ledger cells all hold the same
\* number as in the original snapshot, in whatever format ("1" and 1.0,
\* "2.0" and 2.0), is not reported as changed, and a student with a ledger
\* cell whose old and new numbers differ is reported as changed.
C13_NumericComparison ==
    ReportCompleted =>
        \A sid \in (DOMAIN original_canvas) \cap (DOMAIN canvas) :
            /\ (\A i \in 1..Len(changes) :
                   /\ IsNumber(original_canvas[sid][changes[i]])
                   /\ IsNumber(canvas[sid][changes[i]])
                   /\ NumberOf(original_canvas[sid][changes[i]])
                          = NumberOf(canvas[sid][changes[i]]))
               => sid \notin last.rows
            /\ (\E i \in 1..Len(changes) :
                   /\ IsNumber(original_canvas[sid][changes[i]])
                   /\ IsNumber(canvas[sid][changes[i]])
                   /\ NumberOf(original_canvas[sid][changes[i]])
                          # NumberOf(canvas[sid][changes[i]]))
               => sid \in last.rows

\* A column read as the texts "1" and "2.0", then the series {a: 1} merged
\* into it: a holds 1.0 for "1" and is not reported, b holds 0 for "2.0"
\* and is reported.
C13_Witness ==
    /\ ReportCompleted
    /\ Len(changes) = 1
    /\ original_canvas["a"][changes[1]] = Str(<<"1">>)
    /\ canvas["a"][changes[1]] = Num(1)
    /\ original_canvas["b"][changes[1]] = Str(<<"2", ".", "0">>)
    /\ canvas["b"][changes[1]] = Num(0)
    /\ last.rows = {"b"}

\* A cell differs between the snapshot and the gradebook when one side is
\* blank and the other is not, or when both hold numbers that are not equal.
CellChanged(old, new) ==
    IF IsNumber(old) /\ IsNumber(new) THEN NumberOf(old) # NumberOf(new)
    ELSE (old.k = "nan") # (new.k = "nan")

ChangedRows ==
    {sid \in (DOMAIN original_canvas) \cap (DOMAIN canvas) :
        \E i \in 1..Len(changes) :
            CellChanged(original_canvas[sid][changes[i]], canvas[sid][changes[i]])}

\* C14: when at least one row differs, report_diffs returns exactly the rows
\* of the students for whom at least one ledger column differs between the
\* original snapshot and the current gradebook, the reported count is the
\* number of such rows, and each returned row carries the student name, the
\* identifier and the old and the new value of every ledger column.
C14_ExactlyChangedRows ==
    (ReportCompleted /\ ChangedRows # {}) =>
        /\ last.rows = ChangedRows
        /\ last.count = Cardinality(ChangedRows)
        /\ \E j \in 1..Len(last.cols) :
              last.cols[j] = [col |-> columns[1], side |-> "old"]
        /\ \E j \in 1..Len(last.cols) : last.cols[j].side = "key"
        /\ \A i \in 1..Len(changes) :
              /\ \E j \in 1..Len(last.cols) :
                    last.cols[j] = [col |-> changes[i], side |-> "old"]
              /\ \E j \in 1..Len(last.cols) :
                    last.cols[j] = [col |-> changes[i], side |-> "new"]

\* C15: whenever no student row has a tracked column whose current value
\* differs numerically from the original snapshot, report_diffs completes
\* without raising and reports the zero-changes outcome: no change set.
C15_ZeroChangesIsNotAnError ==
    (last.op = "report_diffs" /\ ChangedRows = {}) =>
        /\ last.ok
        /\ last.rows = {}
        /\ last.count = 0

NoActivities == lesson_metadata.quiz = <<>> /\ lesson_metadata.code = <<>>

\* C16: compute_single_lesson_score fails with an error and returns no
\* score series when the lesson metadata declares zero quiz activities and
\* zero code activities; it never returns undefined scores for that lesson.
C16_NoActivitiesFails ==
    NoActivities => lpc # "done"

SomeTableEmpty == \E act \in DOMAIN results : DOMAIN results[act] = {}

\* C17: compute_single_lesson_score fails with an error and returns no
\* score series when the raw-score table of some activity is empty; it never
\* returns undefined scores for every student of that lesson.
C17_EmptyTableFails ==
    SomeTableEmpty => lpc # "done"

\* C18 as stated: for any gradebook, any drop_lowest and any permutation of
\* the list of lesson column names, compute_total_score produces the same
\* total for every student.
C18_OrderIndependent ==
    tpc = "permuted" =>
        \A s \in DOMAIN gradebook :
            gradebook[s][PermutedTotalCol] = gradebook[s][TotalCol]

\* The next float64 above a float that is not negative and not zero.
Succ64(x) ==
    LET inc == Increment(x.m)
    IN  IF Len(inc) > Precision
        THEN [x EXCEPT !.m = SubSeq(inc, 1, Precision), !.e = x.e + 1]
        ELSE [x EXCEPT !.m = inc]

RECURSIVE SuccN(_, _)
SuccN(x, k) == IF k = 0 THEN x ELSE SuccN(Succ64(x), k - 1)

\* x and y are at most k units in the last place apart.
WithinUlps(x, y, k) ==
    \/ x = y
    \/ /\ ~x.neg /\ ~y.neg /\ ~IsZero64(x) /\ ~IsZero64(y)
       /\ \E i \in 1..k : SuccN(x, i) = y \/ SuccN(y, i) = x

ScoresAddExactly(s) ==
    Cardinality({i \in 1..Len(lesson_column_names) :
                    ~gradebook[s][lesson_column_names[i]].nan}) <= 1

\* C18 amended: the totals of the two orders agree up to the rounding of
\* the additions. For every student they are at most 2 * (n - 1) units in
\* the last place apart, n the number of lesson columns, and they are the
\* same float64 when at most one score of the student is not missing.
C18_OrderIndependentUpToRounding ==
    tpc = "permuted" =>
        \A s \in DOMAIN gradebook :
            /\ WithinUlps(gradebook[s][TotalCol], gradebook[s][PermutedTotalCol],
                          2 * (Len(lesson_column_names) - 1))
            /\ ScoresAddExactly(s) =>
                   gradebook[s][PermutedTotalCol] = gradebook[s][TotalCol]

\* The scores 0.1, 0.2, 0.3 added in this order and in the reverse order:
\* 0.6000000000000001 and 0.6, one unit in the last place apart.
C18_Witness ==
    /\ tpc = "permuted"
    /\ lesson_column_names = <<"L1", "L2", "L3">>
    /\ permuted_names = <<"L3", "L2", "L1">>
    /\ drop_lowest = 0
    /\ gradebook["a"]["L1"] = Div64(1, 10)
    /\ gradebook["a"]["L2"] = Div64(2, 10)
    /\ gradebook["a"]["L3"] = Div64(3, 10)
    /\ gradebook["a"][TotalCol] = Succ64(gradebook["a"][PermutedTotalCol])

\* The second quotient is a smaller number than the first.
Decreased(old, new) ==
    /\ ~old.nan
    /\ ~new.nan
    /\ new.num * old.den < old.num * new.den

\* The raw score of student s on the activity is higher after the step.
RaisedOn(slide, s) ==
    /\ s \in DOMAIN results[slide]
    /\ results'[slide][s].v > results[slide][s].v

\* C19 as stated: increasing one student's raw score on one activity, all
\* timestamps and all other raw scores unchanged, never decreases that
\* student's lesson score, also when the increased score becomes the new
\* observed maximum of the activity and when the student's time factor for
\* the activity is 0 or 0.5.
C19_Monotonic ==
    [][(lpc = "done" /\ lpc' = "raised") =>
           \A slide \in DOMAIN results : \A s \in DOMAIN lesson_scores :
               RaisedOn(slide, s) =>
                   ~Decreased(lesson_scores[s], lesson_scores'[s])]_vars

\* C19 amended: the same, for an increased score that does not exceed the
\* maximum observed for the activity before the increase; the denominator
\* of the lesson is then the same and no student's score decreases.
C19_MonotonicBelowMaximum ==
    [][(lpc = "done" /\ lpc' = "raised") =>
           \A slide \in DOMAIN results : \A s \in DOMAIN lesson_scores :
               (/\ RaisedOn(slide, s)
                /\ results'[slide][s].v <= SeriesMax(results[slide]).v) =>
                   /\ ~Decreased(lesson_scores[s], lesson_scores'[s])
                   /\ lesson_scores'[s].den = lesson_scores[s].den
                        \/ lesson_scores[s].nan \/ lesson_scores'[s].nan]_vars

\* One quiz with the scores a: 20, b: 20 after a raise (the maximum was 20
\* before it), a on time: a's raised score counts in full.
C19_Witness ==
    /\ lpc = "raised"
    /\ lesson_metadata = [quiz |-> <<"quiz1">>, code |-> <<>>]
    /\ DOMAIN results["quiz1"] = {"a", "b"}
    /\ results["quiz1"]["a"] = F(20)
    /\ results["quiz1"]["b"] = F(20)
    /\ "a" \in DOMAIN lesson_scores
    /\ ~lesson_scores["a"].nan
    /\ lesson_scores["a"].num = lesson_scores["a"].den

\* One student identifier occurs on two rows of the score table.
HasDuplicateIds(reader) ==
    \E i, j \in 1..Len(reader) : i # j /\ reader[i][1] = reader[j][1]

\* C20: add_grades with a score table in which one student identifier
\* occurs on two rows raises an error and writes no value into the
\* gradebook.
C20_DuplicateIdsRejected ==
    [][(last'.op = "add_grades" /\ HasDuplicateIds(last'.reader)) =>
           (~last'.ok /\ canvas' = canvas)]_vars

\* C21: a call of add_grades that raises leaves every cell of the gradebook
\* as before the call, and leaves the changes ledger without an entry for
\* the column that was not written.
C21_MergeAllOrNothing ==
    [][(last'.op = "add_grades" /\ ~last'.ok) =>
           (canvas' = canvas /\ changes' = changes)]_vars

ColumnSet == {columns[i] : i \in 1..Len(columns)}

\* C22: a successful add_grades changes only cells of the one resolved
\* column, which is a column the gradebook already had: the columns, the
\* student rows and their order, and every cell of every other column are
\* as before the call; and a name that no column starts with is not
\* resolved.
C22_OnlyResolvedColumn ==
    /\ [][(last'.op = "add_grades" /\ last'.ok) =>
              /\ last'.col \in ColumnSet
              /\ columns' = columns
              /\ index' = index
              /\ DOMAIN canvas' = DOMAIN canvas
              /\ \A sid \in DOMAIN canvas :
                    /\ DOMAIN canvas'[sid] = ColumnSet
                    /\ \A c \in ColumnSet \ {last'.col} :
                          canvas'[sid][c] = canvas[sid][c]]_vars
    /\ []((/\ last.op = "_find_column"
           /\ \A c \in ColumnSet : ~StartsWith(c, last.prefix)) => ~last.ok)

\* A merge of {b: 2, c: 3} after set_grade has written a's cell of another
\* column: b has its score, a keeps the 5 of the other column, c has no row.
C22_Witness ==
    /\ last.op = "add_grades" /\ last.ok
    /\ last.reader = <<<<"b", Num(2)>>, <<"c", Num(3)>>>>
    /\ index = <<"a", "b">>
    /\ canvas["b"][last.col] = Num(2)
    /\ \E c \in ColumnSet \ {last.col, columns[1]} : canvas["a"][c] = Num(5)

C24_SnapshotNeverModified ==
    [][original_canvas' = original_canvas]_vars

\* report_diffs after a merge and a set_grade that have both changed the
\* gradebook: the gradebook differs from the snapshot and rows are reported.
C24_Witness ==
    /\ last.op = "report_diffs" /\ last.ok
    /\ last.rows # {}
    /\ changes # <<>>
    /\ \E sid \in DOMAIN canvas, c \in ColumnSet : canvas[sid][c] = Num(5)
    /\ \E sid \in DOMAIN original_canvas : canvas[sid] # original_canvas[sid]

\* C25: after any sequence of set_grade and add_grades calls the student
\* rows of the gradebook are the ones loaded from the roster; set_grade
\* with an identifier that is not in the gradebook adds no row.
C25_RowSetStable ==
    /\ DOMAIN canvas = Roster
    /\ index = RosterOrder

\* C26: report_diffs on an object whose changes ledger is empty completes
\* without raising and reports that no differences were found.
C26_EmptyLedgerReport ==
    (last.op = "report_diffs" /\ changes = <<>>) =>
        (last.ok /\ last.rows = {})

NumLessons == Len(lesson_column_names)

\* The doubled sum of a student's scores in the lesson columns K.
RECURSIVE SumOfLessons(_, _)
SumOfLessons(s, K) ==
    IF K = {} THEN 0
    ELSE LET i == CHOOSE j \in K : TRUE
         IN  gradebook[s][lesson_column_names[i]].v + SumOfLessons(s, K \ {i})

\* The true drop-lowest total (doubled): the sum of the student's scores
\* with the drop_lowest smallest removed, which is the largest sum of
\* number_of_lessons - drop_lowest of them.
TrueDropLowest2(s) ==
    LET kept == {K \in SUBSET (1..NumLessons) :
                    Cardinality(K) = NumLessons - drop_lowest}
    IN  CHOOSE t \in {SumOfLessons(s, K) : K \in kept} :
            \A K \in kept : SumOfLessons(s, K) <= t

\* Every lesson score of the student is a number (in [0,1]).
AllScored(s) ==
    \A i \in 1..NumLessons : ~gradebook[s][lesson_column_names[i]].nan

LessonsWith(s, v) ==
    {i \in 1..NumLessons : gradebook[s][lesson_column_names[i]] = F(v)}

\* C27: for lesson scores in [0,1] and 0 <= drop_lowest <= number of
\* lessons, the capped total is never smaller than the true drop-lowest
\* total, and the two are equal when all the scores are 0 or 1 with at least
\* number_of_lessons - drop_lowest of them 1, or when the drop_lowest
\* smallest scores are all 0.
C27_CapVersusDropLowest ==
    (tpc = "done" /\ drop_lowest <= NumLessons) =>
        \A s \in DOMAIN gradebook :
            AllScored(s) =>
                LET total == gradebook[s][TotalCol].v
                    ones == Cardinality(LessonsWith(s, 2))
                    zeros == Cardinality(LessonsWith(s, 0))
                IN  /\ total >= TrueDropLowest2(s)
                    /\ (ones + zeros = NumLessons
                        /\ ones >= NumLessons - drop_lowest)
                           => total = TrueDropLowest2(s)
                    /\ zeros >= drop_lowest => total = TrueDropLowest2(s)

\* Scores [0.5, 0.5, 1] with drop_lowest = 1: the capped total is 2, the
\* true drop-lowest total is 1.5.
C27_Witness ==
    /\ tpc = "done"
    /\ NumLessons = 3
    /\ drop_lowest = 1
    /\ \E s \in DOMAIN gradebook :
          /\ gradebook[s][lesson_column_names[1]] = F(1)
          /\ gradebook[s][lesson_column_names[2]] = F(1)
          /\ gradebook[s][lesson_column_names[3]] = F(2)
          /\ gradebook[s][TotalCol] = F(4)
          /\ TrueDropLowest2(s) = 3

====
